---------------------------- MODULE Spec2Model ----------------------------
(***************************************************************************)
(* Model of the Aquacomputer Quadro hwmon driver (aquacomputer-quadro.c).  *)
(*                                                                         *)
(* State: the driver's private data (struct quadro_data), the kernel tick  *)
(* counter jiffies, the outcome of the last completed operation, and, for  *)
(* the interleaved specification, the position of the report handler and   *)
(* of each reader inside their bodies.                                     *)
(*                                                                         *)
(* Spec     : every handler is one atomic action (sequential behaviour).   *)
(* SpecConc : quadro_raw_event and the readers are split into their        *)
(*            individual field stores and field loads, interleaved under   *)
(*            sequentially consistent memory (the driver takes no lock).   *)
(***************************************************************************)
EXTENDS Integers, Sequences, FiniteSets, TLC

(***************************************************************************)
(* Bounds of the model.                                                    *)
(***************************************************************************)
\* width in bits of "unsigned long" (jiffies, priv->updated), scaled down
BITS == 3
\* ticks per second (kernel configuration), scaled down
HZ == 1
\* largest channel index a caller passes to quadro_read / quadro_read_string
MaxChannel == 5
\* ticks the interleaved specification lets pass
MaxConcTicks == 2

Wrap == 2 ^ BITS
Half == 2 ^ (BITS - 1)

(***************************************************************************)
(* Program constants.                                                      *)
(***************************************************************************)
QUADRO_STATUS_REPORT_ID == 1
QUADRO_STATUS_UPDATE_INTERVAL == 2 * HZ

QUADRO_SERIAL_FIRST_PART == 3
QUADRO_SERIAL_SECOND_PART == 5
QUADRO_FIRMWARE_VERSION == 13
QUADRO_POWER_CYCLES == 24

QUADRO_TEMP1 == 52
QUADRO_TEMP2 == 54
QUADRO_TEMP3 == 56
QUADRO_TEMP4 == 58

QUADRO_FLOW_SPEED == 110
QUADRO_FAN1_SPEED == 120
QUADRO_FAN2_SPEED == 133
QUADRO_FAN3_SPEED == 146
QUADRO_FAN4_SPEED == 159

QUADRO_FAN1_POWER == 118
QUADRO_FAN2_POWER == 131
QUADRO_FAN3_POWER == 144
QUADRO_FAN4_POWER == 157

QUADRO_VOLTAGE == 108
QUADRO_FAN1_VOLTAGE == 114
QUADRO_FAN2_VOLTAGE == 127
QUADRO_FAN3_VOLTAGE == 140
QUADRO_FAN4_VOLTAGE == 153

QUADRO_FAN1_CURRENT == 116
QUADRO_FAN2_CURRENT == 129
QUADRO_FAN3_CURRENT == 142
QUADRO_FAN4_CURRENT == 155

\* errno values returned (negated) by quadro_read / quadro_read_string
ENODATA == 61
EOPNOTSUPP == 95

label_temps == << "Temp1", "Temp2", "Temp3", "Temp4" >>
label_speeds ==
    << "Flow speed [l/h]", "Fan1 speed", "Fan2 speed", "Fan3 speed", "Fan4 speed" >>
label_power == << "Fan1 power", "Fan2 power", "Fan3 power", "Fan4 power" >>
label_voltages ==
    << "VCC", "Fan1 voltage", "Fan2 voltage", "Fan3 voltage", "Fan4 voltage" >>
label_current == << "Fan1 current", "Fan2 current", "Fan3 current", "Fan4 current" >>

(***************************************************************************)
(* Integer widths of the fields of struct quadro_data.                     *)
(***************************************************************************)
\* u16: reduced modulo 2^16
ToU16(x) == x % 65536
\* u32 and s32 fields other than power_cycles: every value assigned to one is a
\* 16-bit load times at most 10000, computed in int: it lies in 0..655350000,
\* inside both types, and the assignment keeps it
ToU32(x) == x
ToS32(x) == x
\* a 32-bit value as its two 16-bit halves (power_cycles)
U32(hi, lo) == [hi |-> hi, lo |-> lo]
ToULong(x) == x % Wrap

(***************************************************************************)
(* Reports delivered by the transport.  A report is its HID report id, the *)
(* number of bytes delivered and a description of its bytes:               *)
(*   "linear"    : byte i is (p * i + q) mod 256;                          *)
(*   "synthetic" : a report encoded from known field values: temperature   *)
(*                 words 250, speed words 120, power words 15, voltage     *)
(*                 words p, every other word of the register map q, every  *)
(*                 other byte 0.                                           *)
(***************************************************************************)
TempOffsets == { QUADRO_TEMP1, QUADRO_TEMP2, QUADRO_TEMP3, QUADRO_TEMP4 }
SpeedOffsets ==
    { QUADRO_FLOW_SPEED, QUADRO_FAN1_SPEED, QUADRO_FAN2_SPEED, QUADRO_FAN3_SPEED,
      QUADRO_FAN4_SPEED }
PowerOffsets ==
    { QUADRO_FAN1_POWER, QUADRO_FAN2_POWER, QUADRO_FAN3_POWER, QUADRO_FAN4_POWER }
VoltageOffsets ==
    { QUADRO_VOLTAGE, QUADRO_FAN1_VOLTAGE, QUADRO_FAN2_VOLTAGE, QUADRO_FAN3_VOLTAGE,
      QUADRO_FAN4_VOLTAGE }
OtherOffsets ==
    { QUADRO_SERIAL_FIRST_PART, QUADRO_SERIAL_SECOND_PART, QUADRO_FIRMWARE_VERSION,
      QUADRO_POWER_CYCLES, QUADRO_POWER_CYCLES + 2,
      QUADRO_FAN1_CURRENT, QUADRO_FAN2_CURRENT, QUADRO_FAN3_CURRENT,
      QUADRO_FAN4_CURRENT }

\* the 16-bit word a synthetic report holds at offset off of the register map
SyntheticWord(r, off) ==
    IF off \in TempOffsets THEN 250
    ELSE IF off \in SpeedOffsets THEN 120
    ELSE IF off \in PowerOffsets THEN 15
    ELSE IF off \in VoltageOffsets THEN r.p
    ELSE IF off \in OtherOffsets THEN r.q
    ELSE 0

WordOffsets ==
    TempOffsets \cup SpeedOffsets \cup PowerOffsets \cup VoltageOffsets
        \cup OtherOffsets

\* bytes a report must have for every field to lie inside it
RequiredSize == QUADRO_FAN4_SPEED + 2

Report(id, size, kind, p, q) ==
    [id |-> id, size |-> size, kind |-> kind, p |-> p, q |-> q]

NoReport == Report(0, 0, "none", 0, 0)

FullReports ==
    { Report(QUADRO_STATUS_REPORT_ID, RequiredSize, "linear", 1, 0),
      Report(QUADRO_STATUS_REPORT_ID, RequiredSize, "linear", 0, 255),
      Report(QUADRO_STATUS_REPORT_ID, RequiredSize, "synthetic", 1200, 37) }

OtherReports ==
    { Report(2, RequiredSize, "linear", 1, 0),
      Report(0, RequiredSize, "synthetic", 1200, 37) }

ShortReports ==
    { Report(QUADRO_STATUS_REPORT_ID, RequiredSize - 1, "linear", 1, 0),
      Report(QUADRO_STATUS_REPORT_ID, QUADRO_TEMP3, "synthetic", 1200, 37) }

Reports == FullReports \cup OtherReports \cup ShortReports

\* what a load beyond the end of the delivered buffer may yield
BeyondBytes == { 0, 165 }

\* byte i of the buffer of report r
DataByte(r, i) ==
    IF r.kind = "linear" THEN (r.p * i + r.q) % 256
    ELSE IF i \in WordOffsets THEN SyntheticWord(r, i) \div 256
    ELSE IF (i - 1) \in WordOffsets THEN SyntheticWord(r, i - 1) % 256
    ELSE 0

\* the byte the handler loads at data + i: inside the buffer the report's byte,
\* beyond it whatever lies there (g)
LoadByte(r, g, i) == IF i < r.size THEN DataByte(r, i) ELSE g

get_unaligned_be16(r, g, off) == LoadByte(r, g, off) * 256 + LoadByte(r, g, off + 1)

get_unaligned_be32(r, g, off) ==
    U32(get_unaligned_be16(r, g, off), get_unaligned_be16(r, g, off + 2))

(***************************************************************************)
(* struct quadro_data.  C index c is TLA+ index c + 1.                     *)
(***************************************************************************)
ZeroData ==
    [ temp_input |-> << 0, 0, 0, 0 >>,
      speed_input |-> << 0, 0, 0, 0, 0 >>,
      power_input |-> << 0, 0, 0, 0 >>,
      voltage_input |-> << 0, 0, 0, 0, 0 >>,
      current_input |-> << 0, 0, 0, 0 >>,
      serial_number |-> << 0, 0 >>,
      firmware_version |-> 0,
      power_cycles |-> U32(0, 0),
      updated |-> 0 ]

\* number of assignments in the body of quadro_raw_event
NumStores == 27

\* the k-th assignment of quadro_raw_event, applied to p
Store(p, k, r, g, now) ==
    CASE k = 1 -> [p EXCEPT !.serial_number[1] =
                     ToU32(get_unaligned_be16(r, g, QUADRO_SERIAL_FIRST_PART))]
      [] k = 2 -> [p EXCEPT !.serial_number[2] =
                     ToU32(get_unaligned_be16(r, g, QUADRO_SERIAL_SECOND_PART))]
      [] k = 3 -> [p EXCEPT !.firmware_version =
                     ToU16(get_unaligned_be16(r, g, QUADRO_FIRMWARE_VERSION))]
      [] k = 4 -> [p EXCEPT !.power_cycles =
                     get_unaligned_be32(r, g, QUADRO_POWER_CYCLES)]
      [] k = 5 -> [p EXCEPT !.temp_input[1] =
                     ToS32(get_unaligned_be16(r, g, QUADRO_TEMP1) * 10)]
      [] k = 6 -> [p EXCEPT !.temp_input[2] =
                     ToS32(get_unaligned_be16(r, g, QUADRO_TEMP2) * 10)]
      [] k = 7 -> [p EXCEPT !.temp_input[3] =
                     ToS32(get_unaligned_be16(r, g, QUADRO_TEMP3) * 10)]
      [] k = 8 -> [p EXCEPT !.temp_input[4] =
                     ToS32(get_unaligned_be16(r, g, QUADRO_TEMP4) * 10)]
      [] k = 9 -> [p EXCEPT !.speed_input[1] =
                     ToU16(get_unaligned_be16(r, g, QUADRO_FLOW_SPEED) \div 10)]
      [] k = 10 -> [p EXCEPT !.speed_input[2] =
                     ToU16(get_unaligned_be16(r, g, QUADRO_FAN1_SPEED))]
      [] k = 11 -> [p EXCEPT !.speed_input[3] =
                     ToU16(get_unaligned_be16(r, g, QUADRO_FAN2_SPEED))]
      [] k = 12 -> [p EXCEPT !.speed_input[4] =
                     ToU16(get_unaligned_be16(r, g, QUADRO_FAN3_SPEED))]
      [] k = 13 -> [p EXCEPT !.speed_input[5] =
                     ToU16(get_unaligned_be16(r, g, QUADRO_FAN4_SPEED))]
      [] k = 14 -> [p EXCEPT !.power_input[1] =
                     ToU32(get_unaligned_be16(r, g, QUADRO_FAN1_POWER) * 10000)]
      [] k = 15 -> [p EXCEPT !.power_input[2] =
                     ToU32(get_unaligned_be16(r, g, QUADRO_FAN2_POWER) * 10000)]
      [] k = 16 -> [p EXCEPT !.power_input[3] =
                     ToU32(get_unaligned_be16(r, g, QUADRO_FAN3_POWER) * 10000)]
      [] k = 17 -> [p EXCEPT !.power_input[4] =
                     ToU32(get_unaligned_be16(r, g, QUADRO_FAN4_POWER) * 10000)]
      [] k = 18 -> [p EXCEPT !.voltage_input[1] =
                     ToU16(get_unaligned_be16(r, g, QUADRO_VOLTAGE) * 10)]
      [] k = 19 -> [p EXCEPT !.voltage_input[2] =
                     ToU16(get_unaligned_be16(r, g, QUADRO_FAN1_VOLTAGE) * 10)]
      [] k = 20 -> [p EXCEPT !.voltage_input[3] =
                     ToU16(get_unaligned_be16(r, g, QUADRO_FAN2_VOLTAGE) * 10)]
      [] k = 21 -> [p EXCEPT !.voltage_input[4] =
                     ToU16(get_unaligned_be16(r, g, QUADRO_FAN3_VOLTAGE) * 10)]
      [] k = 22 -> [p EXCEPT !.voltage_input[5] =
                     ToU16(get_unaligned_be16(r, g, QUADRO_FAN4_VOLTAGE) * 10)]
      [] k = 23 -> [p EXCEPT !.current_input[1] =
                     ToU16(get_unaligned_be16(r, g, QUADRO_FAN1_CURRENT))]
      [] k = 24 -> [p EXCEPT !.current_input[2] =
                     ToU16(get_unaligned_be16(r, g, QUADRO_FAN2_CURRENT))]
      [] k = 25 -> [p EXCEPT !.current_input[3] =
                     ToU16(get_unaligned_be16(r, g, QUADRO_FAN3_CURRENT))]
      [] k = 26 -> [p EXCEPT !.current_input[4] =
                     ToU16(get_unaligned_be16(r, g, QUADRO_FAN4_CURRENT))]
      [] OTHER -> [p EXCEPT !.updated = ToULong(now)]

\* the first k assignments of quadro_raw_event, in program order
\* mutant: the assignment of speed_input[4] (the 13th) is left out
RECURSIVE Stores_skip(_, _, _, _, _)
Stores_skip(p, k, r, g, now) ==
    IF k = 0 THEN p
    ELSE IF k = 13 THEN Stores_skip(p, k - 1, r, g, now)
    ELSE Store(Stores_skip(p, k - 1, r, g, now), k, r, g, now)

RECURSIVE Stores(_, _, _, _, _)
Stores(p, k, r, g, now) ==
    IF k = 0 THEN p ELSE Store(Stores(p, k - 1, r, g, now), k, r, g, now)

\* offset of the load of the k-th assignment (k <= 26), in program order
LoadOffsets ==
    << QUADRO_SERIAL_FIRST_PART, QUADRO_SERIAL_SECOND_PART, QUADRO_FIRMWARE_VERSION,
       QUADRO_POWER_CYCLES,
       QUADRO_TEMP1, QUADRO_TEMP2, QUADRO_TEMP3, QUADRO_TEMP4,
       QUADRO_FLOW_SPEED, QUADRO_FAN1_SPEED, QUADRO_FAN2_SPEED, QUADRO_FAN3_SPEED,
       QUADRO_FAN4_SPEED,
       QUADRO_FAN1_POWER, QUADRO_FAN2_POWER, QUADRO_FAN3_POWER, QUADRO_FAN4_POWER,
       QUADRO_VOLTAGE, QUADRO_FAN1_VOLTAGE, QUADRO_FAN2_VOLTAGE, QUADRO_FAN3_VOLTAGE,
       QUADRO_FAN4_VOLTAGE,
       QUADRO_FAN1_CURRENT, QUADRO_FAN2_CURRENT, QUADRO_FAN3_CURRENT,
       QUADRO_FAN4_CURRENT >>

\* one past the last byte the k-th assignment loads (power_cycles is 32 bits wide)
LoadEnd(k) == LoadOffsets[k] + (IF k = 4 THEN 4 ELSE 2)

\* does the k-th assignment load a byte beyond the buffer of r
LoadsBeyond(r, k) == k <= Len(LoadOffsets) /\ LoadEnd(k) > r.size

\* the first assignment, in program order, that loads beyond the buffer of r
FirstBeyond(r) ==
    CHOOSE k \in 1..Len(LoadOffsets) :
        LoadsBeyond(r, k) /\ \A j \in 1..(k - 1) : ~LoadsBeyond(r, j)

\* The handler never looks at size.  A load beyond the buffer is undefined: it
\* yields whatever byte lies there (g in BeyondBytes) or faults (g = Fault, which
\* is no byte).
Fault == 256

Beyond(r) ==
    IF r.id = QUADRO_STATUS_REPORT_ID /\ r.size < RequiredSize
    THEN BeyondBytes \cup {Fault}
    ELSE {0}

\* mutant: the handler averages the first temperature with the stored one
Decode_average(p, r, g, now) ==
    LET d == Stores(p, NumStores, r, g, now)
    IN  [d EXCEPT !.temp_input[1] = (p.temp_input[1] + d.temp_input[1]) \div 2]

\* the body of quadro_raw_event after the report-id test
Decode(p, r, g, now) ==
    IF g = Fault
    THEN Stores(p, FirstBeyond(r) - 1, r, g, now)
    ELSE Stores(p, NumStores, r, g, now)

\* mutant: the handler decodes every report, whatever its id
quadro_raw_event_any_id(p, r, g, now) == Decode(p, r, g, now)

\* quadro_raw_event: the private data after the handler has run on report r
quadro_raw_event(p, r, g, now) ==
    IF r.id # QUADRO_STATUS_REPORT_ID THEN p ELSE Decode(p, r, g, now)

(***************************************************************************)
(* Time.                                                                   *)
(***************************************************************************)
\* mutant: time_after_eq
time_after_or_equal(a, b) == ((b - a) % Wrap) >= Half \/ a = b

\* time_after(a, b): (long)((b) - (a)) < 0 on BITS-bit unsigned long
time_after(a, b) == ((b - a) % Wrap) >= Half

\* quadro_probe: devm_kzalloc, then priv->updated = jiffies - INTERVAL
quadro_probe(now) ==
    [ZeroData EXCEPT !.updated = ToULong(now - QUADRO_STATUS_UPDATE_INTERVAL)]

(***************************************************************************)
(* The hwmon read callbacks.                                               *)
(***************************************************************************)
\* enum hwmon_sensor_types values a caller may pass ("humidity": one the driver
\* has no case for)
Types == { "temp", "fan", "power", "in", "curr", "humidity" }
Supported == { "temp", "fan", "power", "in", "curr" }
Channels == 0..MaxChannel

\* mutant: quadro_info advertising one fan channel fewer
ChannelCount_short(type) ==
    CASE type = "temp" -> 4
      [] type = "fan" -> 4
      [] type = "power" -> 4
      [] type = "in" -> 5
      [] type = "curr" -> 4
      [] OTHER -> 0

\* channels advertised per type by quadro_info
ChannelCount(type) ==
    CASE type = "temp" -> 4
      [] type = "fan" -> 5
      [] type = "power" -> 4
      [] type = "in" -> 5
      [] type = "curr" -> 4
      [] OTHER -> 0

\* the array quadro_read indexes for a type
InputArray(p, type) ==
    CASE type = "temp" -> p.temp_input
      [] type = "fan" -> p.speed_input
      [] type = "power" -> p.power_input
      [] type = "in" -> p.voltage_input
      [] type = "curr" -> p.current_input

\* the table quadro_read_string indexes for a type
LabelArray(type) ==
    CASE type = "temp" -> label_temps
      [] type = "fan" -> label_speeds
      [] type = "power" -> label_power
      [] type = "in" -> label_voltages
      [] type = "curr" -> label_current

\* what an out-of-bounds load of an array element may yield
WildValues == { 0, 48879 }
WildStrings == { "", "<wild>" }

Outcome(ret, val, wrote, str, oob, fault) ==
    [ret |-> ret, val |-> val, wrote |-> wrote, str |-> str, oob |-> oob,
     fault |-> fault]

\* the load priv-><array>[channel] of quadro_read; out of bounds it is undefined
LoadInput(p, type, channel) ==
    IF channel < Len(InputArray(p, type))
    THEN { Outcome(0, InputArray(p, type)[channel + 1], TRUE, "", FALSE, FALSE) }
    ELSE { Outcome(0, v, TRUE, "", TRUE, FALSE) : v \in WildValues }
         \cup { Outcome(0, 0, FALSE, "", TRUE, TRUE) }

\* the staleness test of quadro_read
IsStale(updated, now) ==
    time_after(now, ToULong(updated + QUADRO_STATUS_UPDATE_INTERVAL))

\* quadro_read: the possible outcomes (return value, *val)
quadro_read(p, now, type, channel) ==
    IF IsStale(p.updated, now)
    THEN { Outcome(-ENODATA, 0, FALSE, "", FALSE, FALSE) }
    ELSE IF type \notin Supported
    THEN { Outcome(-EOPNOTSUPP, 0, FALSE, "", FALSE, FALSE) }
    ELSE LoadInput(p, type, channel)

\* quadro_read_string: the possible outcomes (return value, *str)
quadro_read_string_body(type, channel) ==
    IF type \notin Supported
    THEN { Outcome(-EOPNOTSUPP, 0, FALSE, "", FALSE, FALSE) }
    ELSE IF channel < Len(LabelArray(type))
    THEN { Outcome(0, 0, TRUE, LabelArray(type)[channel + 1], FALSE, FALSE) }
    ELSE { Outcome(0, 0, TRUE, s, TRUE, FALSE) : s \in WildStrings }
         \cup { Outcome(0, 0, FALSE, "", TRUE, TRUE) }

\* mutant: quadro_read_string gated by the staleness test, like quadro_read
quadro_read_string_gated(p, now, type, channel) ==
    IF IsStale(p.updated, now)
    THEN { Outcome(-ENODATA, 0, FALSE, "", FALSE, FALSE) }
    ELSE quadro_read_string_body(type, channel)

\* quadro_read_string: it reads neither the private data nor the time
quadro_read_string(p, now, type, channel) == quadro_read_string_body(type, channel)

(***************************************************************************)
(* The debugfs show functions: what seq_printf writes.                     *)
(***************************************************************************)
\* "%u"
FormatU(n) == ToString(n)

\* "%05u"
Format05U(n) ==
    IF n < 10 THEN "0000" \o ToString(n)
    ELSE IF n < 100 THEN "000" \o ToString(n)
    ELSE IF n < 1000 THEN "00" \o ToString(n)
    ELSE IF n < 10000 THEN "0" \o ToString(n)
    ELSE ToString(n)

\* "%05u-%05u\n" of two loaded serial-number parts
FormatSerial(a, b) == Format05U(a) \o "-" \o Format05U(b) \o "\n"

\* "%u" of a 32-bit value held as two halves: decimal digits by long division
RECURSIVE FormatU32(_)
FormatU32(n) ==
    IF n.hi = 0 /\ n.lo < 10 THEN ToString(n.lo)
    ELSE LET l == (n.hi % 10) * 65536 + n.lo
         IN  FormatU32(U32(n.hi \div 10, l \div 10)) \o ToString(l % 10)

serial_number_show(p) == FormatSerial(p.serial_number[1], p.serial_number[2])
firmware_version_show(p) == FormatU(p.firmware_version) \o "\n"
power_cycles_show(p) == FormatU32(p.power_cycles) \o "\n"

(***************************************************************************)
(* State.                                                                  *)
(***************************************************************************)
VARIABLES
    priv,         \* struct quadro_data of the device
    jiffies,      \* the kernel tick counter (BITS bits, wrapping)
    last,         \* the last completed operation and its outcome
    since,        \* ticks since the last decode, or since probe (unwrapped)
    lastDecoded,  \* the last report with the right id the handler decoded
    evt,          \* SpecConc: the handler's report and how many stores it did
    rd,           \* SpecConc: the reader's position and the values it loaded
    ticks         \* ticks since probe (unwrapped)

vars == << priv, jiffies, last, since, lastDecoded, evt, rd, ticks >>
concVars == << evt, rd >>

Last(op, type, channel, o, r) ==
    [op |-> IF o.fault THEN "oops" ELSE op, type |-> type, channel |-> channel,
     ret |-> o.ret, val |-> o.val, wrote |-> o.wrote, str |-> o.str,
     oob |-> o.oob, report |-> r, rel |-> "none"]

\* how a decoded report relates to the one decoded before it (kept with the
\* outcome of the handler): the first one, the same bytes again at a later jiffy
\* or at the same jiffy, or other bytes
Relation(r, prev, gap) ==
    IF prev = NoReport THEN "first"
    ELSE IF r # prev THEN "other"
    ELSE IF gap > 0 THEN "same_later" ELSE "same_now"

NoOutcome == Outcome(0, 0, FALSE, "", FALSE, FALSE)

\* the handler: the report it decodes and the assignments made so far; stale
\* keeps whether the data was stale when the last timestamp was stored
IdleEvt == [k |-> 0, r |-> NoReport, stale |-> FALSE]

\* the reader: its position and the values it has loaded; for a quadro_read that
\* found the data fresh, only keeps whether it was stale before the report that
\* stored the timestamp, src that report and newer the reports decoded since
IdleReader ==
    [op |-> "idle", pc |-> "none", type |-> "none", channel |-> 0, first |-> 0,
     a |-> 0, b |-> 0, ret |-> 0, str |-> "", only |-> FALSE, src |-> NoReport,
     newer |-> {}]

\* a fault (oops) ends the run of the model
Alive == last.op # "oops"

\* the time the model follows: past the point where the BITS-bit comparison
\* of time_after wraps
MaxTicks == QUADRO_STATUS_UPDATE_INTERVAL + Half + 2

\* No observation (a read, a show) is waiting for its caller to take its outcome.
Quiet == last.op \in { "probe", "tick", "raw_event", "idle" }

\* jiffies at probe: anywhere, in particular just before the counter wraps
StartJiffies == { 0, Wrap - 1 }

Init ==
    /\ jiffies \in StartJiffies
    /\ priv = quadro_probe(jiffies)
    /\ last = Last("probe", "none", 0, NoOutcome, NoReport)
    /\ since = 0
    /\ lastDecoded = NoReport
    /\ evt = IdleEvt
    /\ rd = IdleReader
    /\ ticks = 0

(***************************************************************************)
(* Spec: each handler is one action.                                       *)
(***************************************************************************)
Tick ==
    /\ Quiet
    /\ ticks < MaxTicks
    /\ jiffies' = ToULong(jiffies + 1)
    /\ since' = since + 1
    /\ ticks' = ticks + 1
    /\ last' = Last("tick", "none", 0, NoOutcome, NoReport)
    /\ UNCHANGED << priv, lastDecoded, concVars >>

\* the transport delivers report r to quadro_raw_event
RawEvent ==
    /\ Quiet
    /\ \E r \in Reports : \E g \in Beyond(r) :
        LET matched == r.id = QUADRO_STATUS_REPORT_ID
            short == matched /\ r.size < RequiredSize
        IN  /\ priv' = quadro_raw_event(priv, r, g, jiffies)
            /\ last' = [Last("raw_event", "none", 0,
                             Outcome(0, g, FALSE, "", short, g = Fault), r)
                        EXCEPT !.rel = IF matched /\ g # Fault
                                       THEN Relation(r, lastDecoded, since)
                                       ELSE "none"]
            /\ since' = IF matched /\ g # Fault THEN 0 ELSE since
            /\ lastDecoded' = IF matched /\ g # Fault THEN r ELSE lastDecoded
    /\ UNCHANGED << jiffies, ticks, concVars >>

\* mutant: a read that refreshes the timestamp of the data it returns
Read_touch ==
    /\ Quiet
    /\ \E type \in Types, channel \in Channels :
        \E o \in quadro_read(priv, jiffies, type, channel) :
            last' = Last("read", type, channel, o, NoReport)
    /\ priv' = [priv EXCEPT !.updated = ToULong(jiffies)]
    /\ UNCHANGED << jiffies, since, ticks, lastDecoded, concVars >>

Read ==
    /\ Quiet
    /\ \E type \in Types, channel \in Channels :
        \E o \in quadro_read(priv, jiffies, type, channel) :
            last' = Last("read", type, channel, o, NoReport)
    /\ UNCHANGED << priv, jiffies, since, ticks, lastDecoded, concVars >>

ReadString ==
    /\ Quiet
    /\ \E type \in Types, channel \in Channels :
        \E o \in quadro_read_string(priv, jiffies, type, channel) :
            last' = Last("read_string", type, channel, o, NoReport)
    /\ UNCHANGED << priv, jiffies, since, ticks, lastDecoded, concVars >>

\* mutant: serial_number_show gated by the staleness test, like quadro_read
SerialNumberShow_gated ==
    /\ Quiet
    /\ last' = Last("serial_number_show", "none", 0,
                    IF IsStale(priv.updated, jiffies)
                    THEN Outcome(-ENODATA, 0, FALSE, "", FALSE, FALSE)
                    ELSE Outcome(0, 0, FALSE, serial_number_show(priv), FALSE, FALSE),
                    NoReport)
    /\ UNCHANGED << priv, jiffies, since, ticks, lastDecoded, concVars >>

SerialNumberShow ==
    /\ Quiet
    /\ last' = Last("serial_number_show", "none", 0,
                    Outcome(0, 0, FALSE, serial_number_show(priv), FALSE, FALSE),
                    NoReport)
    /\ UNCHANGED << priv, jiffies, since, ticks, lastDecoded, concVars >>

FirmwareVersionShow ==
    /\ Quiet
    /\ last' = Last("firmware_version_show", "none", 0,
                    Outcome(0, 0, FALSE, firmware_version_show(priv), FALSE, FALSE),
                    NoReport)
    /\ UNCHANGED << priv, jiffies, since, ticks, lastDecoded, concVars >>

PowerCyclesShow ==
    /\ Quiet
    /\ last' = Last("power_cycles_show", "none", 0,
                    Outcome(0, 0, FALSE, power_cycles_show(priv), FALSE, FALSE),
                    NoReport)
    /\ UNCHANGED << priv, jiffies, since, ticks, lastDecoded, concVars >>

\* the caller of a read or show function takes its outcome
Return ==
    /\ Alive
    /\ ~Quiet
    /\ last' = Last("idle", "none", 0, NoOutcome, NoReport)
    /\ UNCHANGED << priv, jiffies, since, ticks, lastDecoded, concVars >>

Next ==
    \/ Tick
    \/ RawEvent
    \/ Read
    \/ ReadString
    \/ SerialNumberShow
    \/ FirmwareVersionShow
    \/ PowerCyclesShow
    \/ Return

Spec == Init /\ [][Next]_vars

(***************************************************************************)
(* SpecConc: the driver takes no lock, so the stores of quadro_raw_event   *)
(* and the loads of a reader interleave.  The transport runs one handler   *)
(* at a time.  Readers write nothing and share nothing, so one reader      *)
(* context shows whatever any of several can observe.  Reports here are    *)
(* full-sized.                                                             *)
(***************************************************************************)
ConcReports ==
    { Report(QUADRO_STATUS_REPORT_ID, RequiredSize, "linear", 1, 0),
      Report(QUADRO_STATUS_REPORT_ID, RequiredSize, "synthetic", 1200, 37),
      Report(2, RequiredSize, "linear", 1, 0) }

\* the channels the reader asks for: one of each type
ConcChannels ==
    { << "temp", 0 >>, << "fan", 4 >>, << "power", 3 >>, << "in", 0 >>,
      << "curr", 1 >> }

\* the transport calls quadro_raw_event: the test of report->id
ConcEvtEnter ==
    /\ evt.r = NoReport
    /\ \E r \in ConcReports :
        IF r.id # QUADRO_STATUS_REPORT_ID
        THEN /\ last' = Last("raw_event", "none", 0, NoOutcome, r)
             /\ UNCHANGED evt
        ELSE /\ evt' = [evt EXCEPT !.k = 0, !.r = r]
             /\ UNCHANGED last
    /\ UNCHANGED << priv, jiffies, since, ticks, lastDecoded, rd >>

\* a reader past its staleness test notes the report whose assignment it may load
Noting(reader, r) ==
    IF reader.pc = "load" /\ reader.only
    THEN [reader EXCEPT !.newer = @ \cup {r}]
    ELSE reader

\* mutant: the handler stores the timestamp first and the fields after it
ConcEvtStore_stamp_first ==
    /\ evt.r # NoReport
    /\ LET k == evt.k + 1
           n == IF k = 1 THEN NumStores ELSE k - 1
       IN  /\ priv' = Store(priv, n, evt.r, 0, jiffies)
           /\ evt' = IF k = NumStores
                     THEN [evt EXCEPT !.k = 0, !.r = NoReport]
                     ELSE [evt EXCEPT !.k = k,
                                      !.stale = IF k = 1
                                                THEN IsStale(priv.updated, jiffies)
                                                ELSE @]
           /\ last' = IF k = NumStores
                      THEN Last("raw_event", "none", 0, NoOutcome, evt.r)
                      ELSE last
           /\ since' = IF k = 1 THEN 0 ELSE since
           /\ lastDecoded' = IF k = 1 THEN evt.r ELSE lastDecoded
           /\ rd' = Noting(rd, evt.r)
    /\ UNCHANGED << jiffies, ticks >>

\* the handler makes its next assignment; after the last one it returns
ConcEvtStore ==
    /\ evt.r # NoReport
    /\ LET k == evt.k + 1
       IN  /\ priv' = Store(priv, k, evt.r, 0, jiffies)
           /\ IF k = NumStores
              THEN /\ evt' = [IdleEvt EXCEPT !.stale = IsStale(priv.updated, jiffies)]
                   /\ last' = Last("raw_event", "none", 0, NoOutcome, evt.r)
                   /\ since' = 0
                   /\ lastDecoded' = evt.r
              ELSE /\ evt' = [evt EXCEPT !.k = k]
                   /\ UNCHANGED << last, since, lastDecoded >>
           /\ rd' = Noting(rd, evt.r)
    /\ UNCHANGED << jiffies, ticks >>

ConcTick ==
    /\ ticks < MaxConcTicks
    /\ jiffies' = ToULong(jiffies + 1)
    /\ since' = since + 1
    /\ ticks' = ticks + 1
    /\ UNCHANGED << priv, last, lastDecoded, evt, rd >>

\* quadro_read is called
ConcReadEnter ==
    /\ rd.op = "idle"
    /\ \E tc \in ConcChannels :
        rd' = [IdleReader EXCEPT !.op = "read", !.pc = "test", !.type = tc[1],
                                 !.channel = tc[2]]
    /\ UNCHANGED << priv, jiffies, last, since, ticks, lastDecoded, evt >>

\* quadro_read loads priv->updated and tests it against jiffies
ConcReadTest ==
    /\ rd.op = "read" /\ rd.pc = "test"
    /\ rd' = IF IsStale(priv.updated, jiffies)
             THEN [rd EXCEPT !.pc = "done", !.ret = -ENODATA]
             ELSE LET only == lastDecoded # NoReport /\ evt.stale
                  IN  [rd EXCEPT !.pc = "load", !.b = priv.updated,
                                 !.only = only,
                                 !.src = IF only THEN lastDecoded ELSE NoReport,
                                 !.newer = IF only /\ evt.r # NoReport
                                           THEN {evt.r} ELSE {}]
    /\ UNCHANGED << priv, jiffies, last, since, ticks, lastDecoded, evt >>

\* quadro_read loads the channel's value and returns 0
ConcReadLoad ==
    /\ rd.op = "read" /\ rd.pc = "load"
    /\ \E o \in LoadInput(priv, rd.type, rd.channel) :
        rd' = [rd EXCEPT !.pc = "done", !.a = o.val, !.ret = o.ret]
    /\ UNCHANGED << priv, jiffies, last, since, ticks, lastDecoded, evt >>

\* serial_number_show is called; C leaves the order in which the two arguments
\* of seq_printf are loaded to the compiler
ConcSerialEnter ==
    /\ rd.op = "idle"
    /\ \E f \in { 1, 2 } :
        rd' = [IdleReader EXCEPT !.op = "serial_number_show", !.pc = "first",
                                 !.first = f]
    /\ UNCHANGED << priv, jiffies, last, since, ticks, lastDecoded, evt >>

\* serial_number_show loads one part of the serial number; after the second it
\* prints both
ConcSerialLoad ==
    /\ rd.op = "serial_number_show" /\ rd.pc \in { "first", "second" }
    /\ LET part == IF rd.pc = "first" THEN rd.first ELSE 3 - rd.first
           got == IF part = 1 THEN [rd EXCEPT !.a = priv.serial_number[1]]
                  ELSE [rd EXCEPT !.b = priv.serial_number[2]]
       IN  rd' = IF rd.pc = "first"
                 THEN [got EXCEPT !.pc = "second"]
                 ELSE [got EXCEPT !.pc = "done", !.str = FormatSerial(got.a, got.b)]
    /\ UNCHANGED << priv, jiffies, last, since, ticks, lastDecoded, evt >>

\* firmware_version_show: one load
ConcFirmwareVersionShow ==
    /\ rd.op = "idle"
    /\ rd' = [IdleReader EXCEPT !.op = "firmware_version_show", !.pc = "done",
                                !.a = priv.firmware_version,
                                !.str = firmware_version_show(priv)]
    /\ UNCHANGED << priv, jiffies, last, since, ticks, lastDecoded, evt >>

\* power_cycles_show: one load
ConcPowerCyclesShow ==
    /\ rd.op = "idle"
    /\ rd' = [IdleReader EXCEPT !.op = "power_cycles_show", !.pc = "done",
                                !.str = power_cycles_show(priv)]
    /\ UNCHANGED << priv, jiffies, last, since, ticks, lastDecoded, evt >>

\* the reader's function returns
ConcReturn ==
    /\ rd.pc = "done"
    /\ rd' = IdleReader
    /\ UNCHANGED << priv, jiffies, last, since, ticks, lastDecoded, evt >>

NextConc ==
    \/ ConcEvtEnter
    \/ ConcEvtStore
    \/ ConcTick
    \/ ConcReadEnter
    \/ ConcReadTest
    \/ ConcReadLoad
    \/ ConcSerialEnter
    \/ ConcSerialLoad
    \/ ConcFirmwareVersionShow
    \/ ConcPowerCyclesShow
    \/ ConcReturn

SpecConc == Init /\ [][NextConc]_vars

(***************************************************************************)
(* What the claims speak of.                                               *)
(***************************************************************************)
\* (type, channel) is a channel the driver advertises
ValidChannel(type, channel) ==
    type \in Supported /\ channel >= 0 /\ channel < ChannelCount(type)

\* a report with the right id has been decoded since probe
Decoded == lastDecoded # NoReport

\* the last operation was a quadro_read of an advertised channel
ValidRead == last.op = "read" /\ ValidChannel(last.type, last.channel)

\* the big-endian 16-bit field of report r at offset off
RawField(r, off) == DataByte(r, off) * 256 + DataByte(r, off + 1)

\* the value the field table of the specification gives each channel
TableValue(r, type, channel) ==
    CASE type = "temp" ->
            RawField(r, << QUADRO_TEMP1, QUADRO_TEMP2, QUADRO_TEMP3,
                           QUADRO_TEMP4 >>[channel + 1]) * 10
      [] type = "fan" /\ channel = 0 -> RawField(r, QUADRO_FLOW_SPEED) \div 10
      [] type = "fan" /\ channel > 0 ->
            RawField(r, << QUADRO_FAN1_SPEED, QUADRO_FAN2_SPEED, QUADRO_FAN3_SPEED,
                           QUADRO_FAN4_SPEED >>[channel])
      [] type = "power" ->
            RawField(r, << QUADRO_FAN1_POWER, QUADRO_FAN2_POWER, QUADRO_FAN3_POWER,
                           QUADRO_FAN4_POWER >>[channel + 1]) * 10000
      [] type = "in" ->
            RawField(r, << QUADRO_VOLTAGE, QUADRO_FAN1_VOLTAGE, QUADRO_FAN2_VOLTAGE,
                           QUADRO_FAN3_VOLTAGE, QUADRO_FAN4_VOLTAGE >>[channel + 1]) * 10
      [] type = "curr" ->
            RawField(r, << QUADRO_FAN1_CURRENT, QUADRO_FAN2_CURRENT,
                           QUADRO_FAN3_CURRENT, QUADRO_FAN4_CURRENT >>[channel + 1])

ValidChannels ==
    { tc \in Supported \X Channels : ValidChannel(tc[1], tc[2]) }

\* the last decoded report had every field inside its buffer
DecodedFull == Decoded /\ lastDecoded.size >= RequiredSize /\ Alive

\* the serial number parts a reader may see when they come from one report: those of
\* a report the handler decodes, or the zeros of probe
WholeSerials ==
    { << 0, 0 >> } \cup
    { << RawField(r, QUADRO_SERIAL_FIRST_PART), RawField(r, QUADRO_SERIAL_SECOND_PART) >> :
        r \in FullReports }

(***************************************************************************)
(* C1: with quadro_raw_event running concurrently with a reader, the       *)
(* fields the reader observes come from one decoded report, never a mix of *)
(* the previous report and the new one: the two parts of the serial number *)
(* serial_number_show prints belong to the same report.                    *)
(***************************************************************************)
C1_NoTornObservation ==
    (rd.op = "serial_number_show" /\ rd.pc = "done")
        => << rd.a, rd.b >> \in WholeSerials

(***************************************************************************)
(* C2: from probe until the first report with the right id is decoded,     *)
(* every read of an advertised channel returns -ENODATA, also a read in    *)
(* the tick of the probe.                                                  *)
(***************************************************************************)
C2_StaleBeforeFirstReport ==
    (ValidRead /\ ~Decoded) => (last.ret = -ENODATA /\ ~last.wrote)

(***************************************************************************)
(* C3: a read or a label read of a channel that is not advertised (index   *)
(* out of range, or a type the driver has not) returns an error and never  *)
(* indexes an array out of bounds.                                         *)
(***************************************************************************)
C3_InvalidChannelRejected ==
    (/\ last.op \in { "read", "read_string", "oops" }
     /\ last.type \in Types
     /\ ~ValidChannel(last.type, last.channel))
        => (last.ret < 0 /\ ~last.oob)

(***************************************************************************)
(* C4: a report with the right id but fewer than RequiredSize (161) bytes  *)
(* is answered with an error, no byte beyond the buffer is loaded, and the *)
(* private data (snapshot, identity, timestamp) stays what it was.         *)
(***************************************************************************)
C4_ShortReportRejected ==
    [][(/\ last'.op \in { "raw_event", "oops" }
        /\ last'.report.id = QUADRO_STATUS_REPORT_ID
        /\ last'.report.size < RequiredSize)
           => (priv' = priv /\ last'.ret # 0 /\ ~last'.oob)]_vars

(***************************************************************************)
(* C5: after a decode stamped at T and no later decode, a read of an       *)
(* advertised channel returns the stored value at every tick from T to     *)
(* T + QUADRO_STATUS_UPDATE_INTERVAL inclusive, and -ENODATA one tick      *)
(* later.                                                                  *)
(***************************************************************************)
C5_StalenessBoundary ==
    (ValidRead /\ Decoded) =>
        /\ since <= QUADRO_STATUS_UPDATE_INTERVAL =>
              /\ last.ret = 0
              /\ last.wrote
              /\ last.val = InputArray(priv, last.type)[last.channel + 1]
        /\ since = QUADRO_STATUS_UPDATE_INTERVAL + 1 =>
              (last.ret = -ENODATA /\ ~last.wrote)

\* a read on the last fresh tick returned a decoded, non-zero value
C5_Witness ==
    /\ ValidRead
    /\ Decoded
    /\ since = QUADRO_STATUS_UPDATE_INTERVAL
    /\ last.ret = 0
    /\ last.val # 0

(***************************************************************************)
(* C6: with no decode for more than QUADRO_STATUS_UPDATE_INTERVAL ticks,   *)
(* however many, a read of an advertised channel returns -ENODATA: time    *)
(* alone never makes stale data fresh again.                               *)
(***************************************************************************)
C6_StaleStaysStale ==
    (ValidRead /\ since > QUADRO_STATUS_UPDATE_INTERVAL)
        => (last.ret = -ENODATA /\ ~last.wrote)

(***************************************************************************)
(* C7: delivering a report whose id is not QUADRO_STATUS_REPORT_ID changes *)
(* no field of the private data (snapshot, identity, timestamp), whatever  *)
(* its bytes, and the handler returns 0.                                   *)
(***************************************************************************)
C7_TagMismatchNoOp ==
    [][(last'.op = "raw_event" /\ last'.report.id # QUADRO_STATUS_REPORT_ID)
           => (priv' = priv /\ last'.ret = 0 /\ ~last'.oob)]_vars

\* a report with another id was delivered while decoded data was fresh
C7_Witness ==
    /\ last.op = "raw_event"
    /\ last.report.id # QUADRO_STATUS_REPORT_ID
    /\ last.report.kind = "linear"
    /\ Decoded
    /\ since <= QUADRO_STATUS_UPDATE_INTERVAL
    /\ priv.temp_input[1] = 2500

(***************************************************************************)
(* C8: after the decode of a full report every channel holds the 16-bit    *)
(* big-endian field at its own offset, scaled by its own factor (temp x10, *)
(* flow /10, fan speed x1, power x10000, voltage x10, current x1), and a   *)
(* fresh read returns exactly that value.                                  *)
(***************************************************************************)
C8_DecodeStoresScaledFields ==
    DecodedFull =>
        /\ \A tc \in ValidChannels :
              InputArray(priv, tc[1])[tc[2] + 1] = TableValue(lastDecoded, tc[1], tc[2])
        /\ (ValidRead /\ last.ret = 0) =>
              last.val = TableValue(lastDecoded, last.type, last.channel)

(***************************************************************************)
(* C9: for every raw 16-bit value the stored voltage is exactly raw x 10,  *)
(* the stored temperature raw x 10 and the stored power raw x 10000: the   *)
(* width of the field it is stored in truncates none of them.              *)
(***************************************************************************)
C9_NoTruncation ==
    DecodedFull =>
        \A tc \in ValidChannels :
            tc[1] \in { "in", "temp", "power" } =>
                InputArray(priv, tc[1])[tc[2] + 1]
                    = TableValue(lastDecoded, tc[1], tc[2])

(***************************************************************************)
(* C10: a label read of an advertised channel returns that channel's       *)
(* non-empty label in every state: before the first report, fresh, stale.  *)
(***************************************************************************)
C10_LabelStable ==
    (last.op = "read_string" /\ ValidChannel(last.type, last.channel)) =>
        /\ last.ret = 0
        /\ last.str = LabelArray(last.type)[last.channel + 1]
        /\ last.str # ""

\* a label was returned while the decoded data was stale
C10_Witness ==
    /\ last.op = "read_string"
    /\ ValidChannel(last.type, last.channel)
    /\ Decoded
    /\ since > QUADRO_STATUS_UPDATE_INTERVAL
    /\ IsStale(priv.updated, jiffies)
    /\ last.ret = 0
    /\ last.str = "Fan4 voltage"

\* the last decoded report held its identity fields inside its buffer
DecodedIdentity == Decoded /\ lastDecoded.size >= QUADRO_POWER_CYCLES + 4 /\ Alive

\* what the show functions print for the identity fields of report r
ReportSerial(r) ==
    FormatSerial(RawField(r, QUADRO_SERIAL_FIRST_PART),
                 RawField(r, QUADRO_SERIAL_SECOND_PART))
ReportFirmware(r) == FormatU(RawField(r, QUADRO_FIRMWARE_VERSION)) \o "\n"
ReportPowerCycles(r) ==
    FormatU32(U32(RawField(r, QUADRO_POWER_CYCLES),
                  RawField(r, QUADRO_POWER_CYCLES + 2))) \o "\n"

(***************************************************************************)
(* C11: the show functions print the identity fields (serial number parts, *)
(* firmware version, power cycles) of the most recent report with the      *)
(* right id in every state, also when the sensor data is stale: nothing    *)
(* clears or gates them.                                                   *)
(***************************************************************************)
C11_IdentityNotGated ==
    DecodedIdentity =>
        /\ last.op = "serial_number_show" =>
              (last.ret = 0 /\ last.str = ReportSerial(lastDecoded))
        /\ last.op = "firmware_version_show" =>
              (last.ret = 0 /\ last.str = ReportFirmware(lastDecoded))
        /\ last.op = "power_cycles_show" =>
              (last.ret = 0 /\ last.str = ReportPowerCycles(lastDecoded))

\* the serial number of the last report was printed while the sensor data was stale
C11_Witness ==
    /\ last.op = "serial_number_show"
    /\ DecodedIdentity
    /\ since = QUADRO_STATUS_UPDATE_INTERVAL + 1
    /\ IsStale(priv.updated, jiffies)
    /\ last.str = "00037-00037\n"

\* the channel counts of the specification
SpecCount(type) ==
    CASE type = "temp" -> 4
      [] type = "fan" -> 5
      [] type = "power" -> 4
      [] type = "in" -> 5
      [] type = "curr" -> 4

(***************************************************************************)
(* C12: for each sensor type the number of channels quadro_info advertises *)
(* is the count of the specification (4, 5, 4, 5, 4), the length of the    *)
(* type's label table and the length of its value array; and no two        *)
(* channels of a type share a label.                                       *)
(***************************************************************************)
C12_RegistryConsistent ==
    \A type \in Supported :
        /\ ChannelCount(type) = SpecCount(type)
        /\ Len(LabelArray(type)) = ChannelCount(type)
        /\ Len(InputArray(priv, type)) = ChannelCount(type)
        /\ \A i, j \in 1..Len(LabelArray(type)) :
              LabelArray(type)[i] = LabelArray(type)[j] => i = j

\* the last advertised fan channel was read and its label was read: both exist
C12_Witness ==
    /\ last.op = "read_string"
    /\ last.type = "fan"
    /\ last.channel = ChannelCount("fan") - 1
    /\ last.ret = 0
    /\ ~last.oob
    /\ last.str = "Fan4 speed"
    /\ Len(priv.speed_input) = last.channel + 1

(***************************************************************************)
(* C14: in quadro_read the validation of the channel comes before the      *)
(* staleness test: for a type the driver has not, or a channel that is not *)
(* advertised, the read returns the channel error in fresh and in stale    *)
(* states alike, never -ENODATA.                                           *)
(***************************************************************************)
C14_ValidationBeforeStaleness ==
    (/\ last.op = "read"
     /\ ~ValidChannel(last.type, last.channel))
        => /\ last.ret # -ENODATA
           /\ last.type \notin Supported => last.ret = -EOPNOTSUPP

\* the private data a decode of report r at jiffy stamp leaves: every field from
\* the bytes of r alone, by the field table, in the width of the field
DerivedArray(r, type) ==
    [ i \in 1..SpecCount(type) |->
        IF type \in { "fan", "in", "curr" }
        THEN ToU16(TableValue(r, type, i - 1))
        ELSE TableValue(r, type, i - 1) ]

DerivedData(r, stamp) ==
    [ temp_input |-> DerivedArray(r, "temp"),
      speed_input |-> DerivedArray(r, "fan"),
      power_input |-> DerivedArray(r, "power"),
      voltage_input |-> DerivedArray(r, "in"),
      current_input |-> DerivedArray(r, "curr"),
      serial_number |-> << RawField(r, QUADRO_SERIAL_FIRST_PART),
                           RawField(r, QUADRO_SERIAL_SECOND_PART) >>,
      firmware_version |-> RawField(r, QUADRO_FIRMWARE_VERSION),
      power_cycles |-> U32(RawField(r, QUADRO_POWER_CYCLES),
                           RawField(r, QUADRO_POWER_CYCLES + 2)),
      updated |-> stamp ]

(***************************************************************************)
(* C13: decoding is idempotent: when the handler is given the bytes of the *)
(* report it decoded last once more, every sensor and identity field is    *)
(* left as it was; only the timestamp becomes that of the second delivery. *)
(***************************************************************************)
C13_DecodeIdempotent ==
    [][ (/\ last'.op = "raw_event"
         /\ last'.rel \in { "same_later", "same_now" }
         /\ last'.report.size >= RequiredSize)
            => priv' = [priv EXCEPT !.updated = ToULong(jiffies')] ]_vars

\* the same report was decoded a second time at a later jiffy
C13_Witness ==
    /\ last.op = "raw_event"
    /\ last.rel = "same_later"
    /\ last.report = lastDecoded
    /\ lastDecoded.kind = "synthetic"
    /\ lastDecoded.size >= RequiredSize
    /\ priv.temp_input[1] = 2500
    /\ priv.updated = jiffies

(***************************************************************************)
(* C15: the last report wins, as a whole: after any sequence of reports,   *)
(* once the handler has returned, all 22 sensor values, the 4 identity     *)
(* values and the timestamp are those of the last report with the right    *)
(* id; no field keeps a value of an earlier report.                        *)
(***************************************************************************)
C15_LastReportWins ==
    DecodedFull => priv = DerivedData(lastDecoded, ToULong(jiffies - since))

\* a report was decoded over the data of a report with other bytes
C15_Witness ==
    /\ last.op = "raw_event"
    /\ last.rel = "other"
    /\ DecodedFull
    /\ last.report = lastDecoded
    /\ lastDecoded.kind = "synthetic"
    /\ priv.speed_input[5] = 120
    /\ priv.current_input[4] = 37
    /\ ticks > 0

\* the operations that only read the private data
ReadOps ==
    { "read", "read_string", "serial_number_show", "firmware_version_show",
      "power_cycles_show" }

(***************************************************************************)
(* C17: reads only observe: quadro_read, quadro_read_string and the three  *)
(* show functions leave every field of the private data, the timestamp     *)
(* included, as it was; and a quadro_read that returns -ENODATA or         *)
(* -EOPNOTSUPP does not write the value of its caller.                     *)
(***************************************************************************)
C17_ReadsOnlyObserve ==
    [][ (\/ last'.op \in ReadOps
         \/ last'.op = "oops" /\ last'.type \in Types)
            => /\ priv' = priv
               /\ (last'.op = "read" /\ last'.ret \in { -ENODATA, -EOPNOTSUPP })
                      => ~last'.wrote ]_vars

\* a stale read returned -ENODATA, wrote nothing and left the decoded data
C17_Witness ==
    /\ last.op = "read"
    /\ last.type = "temp"
    /\ last.ret = -ENODATA
    /\ ~last.wrote
    /\ DecodedFull
    /\ priv = DerivedData(lastDecoded, ToULong(jiffies - since))
    /\ priv.temp_input[1] = 2500

\* the value a decode of report r leaves in the channel the reader asked for
ReaderValue(r) == DerivedArray(r, rd.type)[rd.channel + 1]

\* a quadro_read has returned a value that it returned only because of a report:
\* the data was stale when that report's timestamp was stored
FreshByReport == rd.op = "read" /\ rd.pc = "done" /\ rd.ret = 0 /\ rd.only

=============================================================================
